---- MODULE Spec2Model ----
(***************************************************************************)
(* Workflow execution engine of go-n8n.                                    *)
(*                                                                         *)
(*  - the Execution entity (package execution): status transitions         *)
(*  - the Executor of the engine (README, "Workflow Engine Core            *)
(*    Implementation"): the supervising loop run(), the worker pool        *)
(*    nodeWorker()/executeNode(), the ExecutionGraph and the DataFlow      *)
(*                                                                         *)
(* Specifications:                                                         *)
(*   SpecEntity    any sequence of Start/Complete/Fail/Cancel/Timeout      *)
(*                 calls on one Execution, with a clock for time.Now()     *)
(*   Spec          one execution driven by Executor.run() and its workers  *)
(*   SpecWorkflow  Activate, Deactivate and Execute on any definition      *)
(*   SpecDataFlow  any sequence of SetNodeData calls                       *)
(*   SpecRegistry  any sequence of Register and lookup calls               *)
(*   SpecBackoff   the retry loop of executeNode and its sleeps            *)
(*   SpecFair      one execution of a two-node workflow under the fairness *)
(*                 of the Go scheduler                                     *)
(*   SpecProcessItems  one call of ProcessItems with a context that can be *)
(*                 cancelled at any moment                                 *)
(*   SpecRetry     the chain of retries of an execution under a            *)
(*                 RetryPolicy                                             *)
(***************************************************************************)
EXTENDS FiniteSets, Integers, Sequences, TLC

\* ---------------------------------------------------------------- bounds
\* Largest value of time.Now() in SpecEntity.
MaxClock == 3

\* NodeSpec.MaxRetries is drawn from 0..MaxRetriesBound.
MaxRetriesBound == 2

\* The most connections of a workflow definition in SpecWorkflow.
MaxConns == 3

\* The most SetNodeData calls for one node in SpecDataFlow.
MaxPuts == 2

\* The most calls made on the node registries in SpecRegistry.
MaxCalls == 3

\* The largest Node.MaxRetries in SpecBackoff.
MaxSleeps == 17

\* The most items of input.Data in SpecProcessItems.
MaxItems == 3

\* The largest RetryPolicy.MaxRetries in SpecRetry.
MaxPolicyRetries == 2

\* Engine.maxParallelNodes: the number of workers and the capacity of
\* nodeChan and resultChan (NewEngine sets 10; the model uses a small pool).
maxParallelNodes == 2

\* ------------------------------------------------------- Execution entity
\* FinishedAt is a *time.Time: NoTime is the nil pointer.
NoTime == -1

\* ErrorNode / OutputData before they are set.
NoNode == "-"

ExecutionStatuses ==
  {"waiting", "running", "success", "error", "cancelled", "crashed", "timeout"}

\* ExecutionStatus.IsTerminal
IsTerminal(s) == s \in {"success", "error", "cancelled", "crashed", "timeout"}

\* ExecutionStatus.IsRunning
IsRunning(s) == s = "running" \/ s = "waiting"

VARIABLES
  execution,        \* the Execution record
  now,              \* time.Now()
  workflow,         \* the workflow definition of the execution
  nodeStates,       \* Executor.nodeStates
  dataFlow,         \* Executor.dataFlow
  context,          \* Executor.context.Err(): "active", "canceled", "deadline"
  stopped,          \* Executor.stopped: an external stop was requested
  deadlineRunning,  \* a node was executing when the deadline fired
  nodeChan,         \* Executor.nodeChan (buffered, FIFO)
  nodeChanClosed,   \* close(ex.nodeChan) has run
  resultChan,       \* Executor.resultChan (buffered): the results it holds
  graph,            \* run(): the ExecutionGraph built from the workflow
  runPc,            \* position of Executor.run()
  readyNodes,       \* run(): the ready nodes still to be queued
  cur,              \* run(): the node just queued, before updateNodeState
  running,          \* per node: position of executeNode() on a worker
  workersAlive,     \* nodeWorker goroutines that have not returned
  invocations,      \* per node: number of nodeImpl.Execute calls
  registry,         \* a NodeRegistry of package node (domain)
  nodeRegistry,     \* Engine.nodeRegistry: the NodeRegistry of package nodes
  calls,            \* log: the calls made on the two registries with their
                    \* results; the time.Sleep calls of the retry loop; the
                    \* calls of the item function of ProcessItems
  processItems,     \* a call of ProcessItems: input, loop, output, return
  policy            \* the RetryPolicy executions are retried under

vars == <<execution, now, workflow, nodeStates, dataFlow, context, stopped,
          deadlineRunning, nodeChan, nodeChanClosed, resultChan, graph,
          runPc, readyNodes, cur, running, workersAlive, invocations,
          registry, nodeRegistry, calls, processItems, policy>>

executorVars == <<workflow, nodeStates, dataFlow, context, stopped,
                  deadlineRunning, nodeChan, nodeChanClosed, resultChan,
                  graph, runPc, readyNodes, cur, running, workersAlive,
                  invocations, registry, nodeRegistry, calls, processItems,
                  policy>>

\* Execution.finish
finish(e) ==
  [e EXCEPT !.FinishedAt = now, !.ExecutionTimeMs = now - e.StartedAt]

\* Execution.Start
Start(e) == [e EXCEPT !.Status = "running", !.StartedAt = now]

\* Execution.Complete
Complete(e, outputData) ==
  finish([e EXCEPT !.Status = "success", !.OutputData = outputData])

Fail_NoErrorNode(e, err, nodeID) ==
  finish([e EXCEPT !.Status = "error", !.ErrorMessage = err])

\* Execution.Fail
Fail(e, err, nodeID) ==
  finish([e EXCEPT !.Status = "error", !.ErrorMessage = err,
                   !.ErrorNode = nodeID])

\* Execution.Cancel
Cancel(e) == finish([e EXCEPT !.Status = "cancelled"])

\* Execution.Timeout
Timeout(e) == finish([e EXCEPT !.Status = "timeout"])

\* An Execution as CreateRetry builds it: Waiting, zero StartedAt, nil
\* FinishedAt.
NewExecution ==
  [Status |-> "waiting", StartedAt |-> 0, FinishedAt |-> NoTime,
   ExecutionTimeMs |-> 0, OutputData |-> NoNode, ErrorMessage |-> "",
   ErrorNode |-> "", RetryCount |-> 0]

\* No execution record: ExecuteWorkflow has not created one
NilExecution == [NewExecution EXCEPT !.Status = ""]

\* A RetryPolicy without retries
DefaultPolicy == [MaxRetries |-> 0]

CanRetry_Inclusive(e, p) == e.Status = "error" /\ e.RetryCount <= p.MaxRetries

\* Execution.CanRetry
CanRetry(e, p) == e.Status = "error" /\ e.RetryCount < p.MaxRetries

\* Execution.CreateRetry
CreateRetry(e) == [NewExecution EXCEPT !.RetryCount = e.RetryCount + 1]

\* Arguments of the entity's calls in SpecEntity.
EntityErrors == {"boom", "deadlock"}
EntityNodes == {"", "a"}
EntityOutputs == {"out"}


\* ------------------------------------------------------- workflow, graph
\* Connection: Source.NodeID, Source.Type (the output port), Target.NodeID
Conn(s, p, t) == [src |-> s, port |-> p, tgt |-> t]

\* The shapes of the workflow definitions an execution is started with: node
\* ids and the connections in declaration order.
WfBranch ==
  [nodes |-> {"a", "b", "c"},
   conns |-> <<Conn("a", "true", "b"), Conn("a", "false", "c")>>]
WfJoin ==
  [nodes |-> {"a", "b", "c"},
   conns |-> <<Conn("a", "main", "c"), Conn("b", "main", "c")>>]
WfChain == [nodes |-> {"a", "b"}, conns |-> <<Conn("a", "main", "b")>>]
WfParallel == [nodes |-> {"a", "b", "c"}, conns |-> <<>>]
WfCycle ==
  [nodes |-> {"a", "b"},
   conns |-> <<Conn("a", "main", "b"), Conn("b", "main", "a")>>]
WfSelfLoop == [nodes |-> {"a"}, conns |-> <<Conn("a", "main", "a")>>]
WfUnknown == [nodes |-> {"a"}, conns |-> <<Conn("a", "main", "x")>>]
WfMixed ==
  [nodes |-> {"a", "b"},
   conns |-> <<Conn("a", "true", "b"), Conn("a", "false", "b")>>]

Shapes == {WfBranch, WfJoin, WfChain, WfMixed, WfCycle, WfSelfLoop, WfUnknown}

\* A definition: Node.ContinueOnFail is set on the node c (on none for NoNode),
\* Node.MaxRetries is r on the node "a" and 0 on the others.
Definition(w, c, r) ==
  [nodes |-> w.nodes, conns |-> w.conns, cof |-> [n \in w.nodes |-> n = c],
   maxRetries |-> [n \in w.nodes |-> IF n = "a" THEN r ELSE 0],
   Name |-> "wf", IsActive |-> FALSE]

\* The values of Node.MaxRetries tried on a shape: every value up to the bound
\* on the shapes of at most two nodes, none on the larger ones.
Retries(w) ==
  IF Cardinality(w.nodes) <= 2 THEN 0..MaxRetriesBound ELSE {0}

Workflows ==
  {Definition(WfParallel, NoNode, 0)}
    \cup UNION {{Definition(w, c, r) :
                   c \in w.nodes \cup {NoNode}, r \in Retries(w)} :
                w \in Shapes}

\* Node.Validate (Type and Name of a node are taken as set)
NodeValidate(n) == IF n = "" THEN "ErrNodeIDRequired" ELSE ""

ConnectionValidate_NoSelfLoop(c) ==
  IF c.src = "" \/ c.tgt = "" THEN "ErrConnectionNodesRequired" ELSE ""

\* Connection.Validate
ConnectionValidate(c) ==
  IF c.src = "" \/ c.tgt = "" THEN "ErrConnectionNodesRequired"
  ELSE IF c.src = c.tgt THEN "ErrConnectionSelfLoop"
  ELSE ""

\* Workflow.Validate up to the loop over the connections
ValidateNodes(w) ==
  IF w.Name = "" THEN "ErrWorkflowNameRequired"
  ELSE IF w.nodes = {} THEN "ErrWorkflowNodesRequired"
  ELSE IF \E n \in w.nodes : NodeValidate(n) # "" THEN "ErrNodeIDRequired"
  ELSE ""

\* Workflow.Validate: the first error ("" for nil)
Validate(w) ==
  IF ValidateNodes(w) # "" THEN ValidateNodes(w)
  ELSE LET bad == {i \in 1..Len(w.conns) : ConnectionValidate(w.conns[i]) # ""}
       IN IF bad = {} THEN ""
          ELSE ConnectionValidate(
                 w.conns[CHOOSE i \in bad : \A j \in bad : i <= j])

\* Workflow.Activate: the error ("" for nil) and the workflow
Activate(w) ==
  IF w.IsActive THEN [err |-> "ErrWorkflowAlreadyActive", w |-> w]
  ELSE IF Validate(w) # "" THEN [err |-> Validate(w), w |-> w]
  ELSE [err |-> "", w |-> [w EXCEPT !.IsActive = TRUE]]

\* Workflow.Deactivate
Deactivate(w) == [w EXCEPT !.IsActive = FALSE]

\* The workflow definitions of SpecWorkflow: the nodes a, b, c with every
\* sequence of at most MaxConns connections between them and the id x of no
\* node, and the definitions Validate rejects on other grounds.
Endpoints == {"a", "b", "c", "x"}

ConnSeqs ==
  UNION {[1..k -> {Conn(src, "main", tgt) : src \in Endpoints, tgt \in Endpoints}] :
           k \in 0..MaxConns}

WorkflowDefinitions ==
  {Definition([nodes |-> {"a", "b", "c"}, conns |-> cs], NoNode, 0) :
     cs \in ConnSeqs}
    \cup {[Definition(WfChain, NoNode, 0) EXCEPT !.Name = ""],
          Definition([nodes |-> {}, conns |-> <<>>], NoNode, 0),
          Definition([nodes |-> {"", "b"}, conns |-> <<>>], NoNode, 0),
          Definition([nodes |-> {"a", "b"},
                      conns |-> <<Conn("a", "main", "")>>], NoNode, 0),
          Definition([nodes |-> {"a", "b"},
                      conns |-> <<Conn("", "main", "b"), Conn("a", "main", "a")>>],
                     NoNode, 0)}

\* NewExecutionGraph followed by AddNode for every node
NewExecutionGraph(nodes) ==
  [nodes |-> nodes, edges |-> [n \in nodes |-> <<>>],
   inDegree |-> [n \in nodes |-> 0]]

\* ExecutionGraph.AddEdge: the error ("" for nil) and the graph
AddEdge(g, from, to) ==
  IF from \notin g.nodes THEN [err |-> "source node not found", g |-> g]
  ELSE IF to \notin g.nodes THEN [err |-> "target node not found", g |-> g]
  ELSE [err |-> "",
        g |-> [g EXCEPT !.edges[from] = Append(@, to),
                        !.inDegree[to] = @ + 1]]

\* The targets of the adjacency list of a node, as a set
Neighbors(g, n) == {g.edges[n][i] : i \in 1..Len(g.edges[n])}

RECURSIVE hasCyclesDFS(_, _, _, _)
\* ExecutionGraph.hasCyclesDFS: whether a cycle was found, and the visited map
hasCyclesDFS(g, nodeID, visited, recStack) ==
  LET stack == recStack \cup {nodeID}
      RECURSIVE Each(_, _)
      Each(i, vis) ==
        IF i > Len(g.edges[nodeID]) THEN [found |-> FALSE, visited |-> vis]
        ELSE LET neighbor == g.edges[nodeID][i] IN
             IF neighbor \notin vis
             THEN LET r == hasCyclesDFS(g, neighbor, vis, stack) IN
                  IF r.found THEN r ELSE Each(i + 1, r.visited)
             ELSE IF neighbor \in stack
                  THEN [found |-> TRUE, visited |-> vis]
                  ELSE Each(i + 1, vis)
  IN Each(1, visited \cup {nodeID})

RECURSIVE SeqOf(_)
\* One order in which `range` visits the keys of a map
SeqOf(S) ==
  IF S = {} THEN <<>>
  ELSE LET x == CHOOSE y \in S : TRUE IN <<x>> \o SeqOf(S \ {x})

\* Every order in which `range` can visit the keys of a map
Orders(S) ==
  {o \in [1..Cardinality(S) -> S] : \A i, j \in DOMAIN o : i # j => o[i] # o[j]}

HasCyclesFrom_FirstOnly(g, order) ==
  order # <<>> /\ hasCyclesDFS(g, order[1], {}, {}).found

\* ExecutionGraph.HasCycles, `range g.nodes` visiting the nodes in this order
HasCyclesFrom(g, order) ==
  LET RECURSIVE Roots(_, _)
      Roots(i, visited) ==
        IF i > Len(order) THEN FALSE
        ELSE IF order[i] \in visited THEN Roots(i + 1, visited)
             ELSE LET r == hasCyclesDFS(g, order[i], visited, {}) IN
                  r.found \/ Roots(i + 1, r.visited)
  IN Roots(1, {})

\* ExecutionGraph.HasCycles
HasCycles(g) == HasCyclesFrom(g, SeqOf(g.nodes))

\* ExecutionGraph.TopologicalSort, `range inDegreeCopy` visiting the nodes in
\* this order: the error ("" for nil) and the sorted node ids
TopologicalSort(g, order) ==
  LET RECURSIVE Drain(_, _, _)
      Drain(queue, inDegreeCopy, result) ==
        IF queue = <<>> THEN result
        ELSE LET nodeID == Head(queue)
                 RECURSIVE Reduce(_, _, _)
                 Reduce(i, deg, q) ==
                   IF i > Len(g.edges[nodeID]) THEN [deg |-> deg, q |-> q]
                   ELSE LET neighbor == g.edges[nodeID][i]
                            d == [deg EXCEPT ![neighbor] = @ - 1]
                        IN Reduce(i + 1, d,
                                  IF d[neighbor] = 0 THEN Append(q, neighbor)
                                  ELSE q)
                 r == Reduce(1, inDegreeCopy, Tail(queue))
             IN Drain(r.q, r.deg, Append(result, nodeID))
      result ==
        Drain(SelectSeq(order, LAMBDA n : g.inDegree[n] = 0), g.inDegree, <<>>)
  IN IF Len(result) # Cardinality(g.nodes)
     THEN [err |-> "graph contains cycles", result |-> <<>>]
     ELSE [err |-> "", result |-> result]

RECURSIVE AddEdges(_, _, _)
\* buildExecutionGraph: the loop over the connections
AddEdges(g, conns, i) ==
  IF i > Len(conns) THEN [err |-> "", g |-> g]
  ELSE LET r == AddEdge(g, conns[i].src, conns[i].tgt) IN
       IF r.err # "" THEN [err |-> "invalid connection", g |-> g]
       ELSE AddEdges(r.g, conns, i + 1)

\* ExecutionGraph.Validate: a connection from a node to itself is rejected
GraphValidate(g) == \A n \in g.nodes : n \notin Neighbors(g, n)

\* Executor.buildExecutionGraph
buildExecutionGraph(w) ==
  LET r == AddEdges(NewExecutionGraph(w.nodes), w.conns, 1) IN
  IF r.err # "" THEN r
  ELSE IF ~GraphValidate(r.g) THEN [err |-> "graph validation failed", g |-> r.g]
  ELSE IF HasCycles(r.g) THEN [err |-> "workflow contains cycles", g |-> r.g]
  ELSE r

GetReadyNodes_AnyDep(g, completed) ==
  {nodeID \in g.nodes :
     /\ nodeID \notin completed
     /\ \/ \A depNodeID \in g.nodes : nodeID \notin Neighbors(g, depNodeID)
        \/ \E depNodeID \in g.nodes :
             nodeID \in Neighbors(g, depNodeID) /\ depNodeID \in completed}

GetReadyNodes_NoDeps(g, completed) == {nodeID \in g.nodes : nodeID \notin completed}

\* ExecutionGraph.GetReadyNodes
GetReadyNodes(g, completed) ==
  {nodeID \in g.nodes :
     /\ nodeID \notin completed
     /\ \A depNodeID \in g.nodes :
          nodeID \in Neighbors(g, depNodeID) => depNodeID \in completed}

\* ---------------------------------------------------------------- Executor
NodeTerminal == {"success", "error", "skipped"}

\* NodeState of a node that has not run
NewNodeState ==
  [Status |-> "waiting", RetryCount |-> 0, OutputData |-> {}, Error |-> ""]

\* No worker is in executeNode for the node.  In executeNode: its position,
\* the attempt counter of the retry loop, nodeCtx.Err() as an Execute call
\* of the loop has met it, and inputData
NotRunning ==
  [pc |-> "idle", attempt |-> 0, nodeCtx |-> "active", inputData |-> <<>>]

\* The nodes a worker is executing
Busy == {n \in DOMAIN running : running[n].pc # "idle"}

\* nodeWorker goroutines blocked on `range ex.nodeChan`
IdleWorkers == workersAlive - Cardinality(Busy)

\* ex.cancel()
cancel(c) == IF c = "active" THEN "canceled" ELSE c

\* Executor.updateNodeState
updateNodeState(ns, nodeID, status) == [ns EXCEPT ![nodeID].Status = status]

\* The nodes whose output is in the data flow store: their ports are resolved
completed == {n \in graph.nodes : dataFlow[n].written}

\* Executor.getReadyNodes: nodes still waiting whose dependencies are resolved
getReadyNodes ==
  {n \in GetReadyNodes(graph, completed) : nodeStates[n].Status = "waiting"}

\* Executor.allNodesCompleted
allNodesCompleted ==
  \A n \in graph.nodes : nodeStates[n].Status \in NodeTerminal

\* Executor.hasDeadlock: nothing is ready, not all is done, nothing is running
hasDeadlock == \A n \in graph.nodes : nodeStates[n].Status # "running"

\* Executor.handleExecutionSuccess: a terminal status is kept
handleExecutionSuccess(e) ==
  IF IsTerminal(e.Status) THEN e ELSE Complete(e, "out")

\* Executor.handleExecutionError: a terminal status is kept; the error of the
\* context decides between Timeout and Cancelled
handleExecutionError(e, err) ==
  IF IsTerminal(e.Status) THEN e
  ELSE IF err = "deadline" THEN Timeout(e)
  ELSE IF err = "canceled" THEN Cancel(e)
  ELSE Fail(e, err, "")

SetNodeData_Overwrite(df, nodeID, data) ==
  [err |-> "", df |-> [df EXCEPT ![nodeID] = [written |-> TRUE, data |-> data]]]

\* DataFlow.SetNodeData: the output of a node is recorded once; a second
\* write for the node is ErrDuplicateWrite and changes nothing
SetNodeData(df, nodeID, data) ==
  IF df[nodeID].written
  THEN [err |-> "ErrDuplicateWrite", df |-> df]
  ELSE [err |-> "",
        df |-> [df EXCEPT ![nodeID] = [written |-> TRUE, data |-> data]]]

\* DataFlow.GetNodeData: the data and whether it was ever written
GetNodeData(df, nodeID) == [data |-> df[nodeID].data, ok |-> df[nodeID].written]

\* An item a node received: the node and the output port it came from
Item(nodeID, port) == [node |-> nodeID, port |-> port]

prepareNodeInput_AllPorts(nodeID) ==
  LET RECURSIVE Merge(_)
      Merge(i) ==
        IF i = 0 THEN <<>>
        ELSE LET conn == workflow.conns[i] IN
             IF conn.tgt = nodeID /\ conn.src \in DOMAIN dataFlow
             THEN Append(Merge(i - 1), Item(conn.src, conn.port))
             ELSE Merge(i - 1)
  IN Merge(Len(workflow.conns))

\* Executor.prepareNodeInput: the items of every incoming connection, in the
\* order the connections are declared; a port the source node did not activate
\* gives no item; the output of a node that failed with continue-on-fail is
\* the item carrying its error
prepareNodeInput(nodeID) ==
  LET RECURSIVE Merge(_)
      Merge(i) ==
        IF i = 0 THEN <<>>
        ELSE LET conn == workflow.conns[i] IN
             IF /\ conn.tgt = nodeID
                /\ conn.src \in DOMAIN dataFlow
                /\ \/ conn.port \in dataFlow[conn.src].data
                   \/ "error" \in dataFlow[conn.src].data
             THEN Append(Merge(i - 1), Item(conn.src, conn.port))
             ELSE Merge(i - 1)
  IN Merge(Len(workflow.conns))

\* isRetryableError: network and timeout class errors
isRetryableError(err) == err \in {"retryable", "deadline"}

retryLoopContinues_OffByOne(attempt, maxRetries) == attempt + 1 < maxRetries

\* executeNode: `attempt++; attempt <= nodeExec.MaxRetries` of the retry loop
retryLoopContinues(attempt, maxRetries) == attempt + 1 <= maxRetries

\* executeNode: the backoff before the retry `attempt`, in seconds:
\* time.Duration(attempt) * time.Second * 2, at most 30 s
backoff(attempt) ==
  LET b == attempt * 2 IN IF b > 30 THEN 30 ELSE b

\* The output ports a node activates when Execute succeeds: one of the ports
\* its connections leave from, or all of them
EmitChoices(n) ==
  LET ports == {workflow.conns[i].port :
                  i \in {j \in 1..Len(workflow.conns) : workflow.conns[j].src = n}}
  IN IF ports = {} THEN {{"main"}} ELSE {{p} : p \in ports} \cup {ports}

\* What nodeImpl.Execute(nodeCtx, ...) returns: nil, or an error.  nodeCtx is
\* context.WithTimeout(ex.context, nodeTimeout), created once before the retry
\* loop: its deadline can pass during any attempt, and a cancelled ex.context
\* cancels it; a context that is done can surface as the error
ExecuteErrors ==
  {"retryable", "fatal", "deadline"}
    \cup (IF context = "active" THEN {} ELSE {context})

\* Errors of executeNode before the first Execute
PrepareErrors == {"failed to load credentials"}

\* ------------------------------------------------------- node registries
\* The node types of the calls: a built-in type, a declared type that
\* NewNodeRegistry does not register, and a type of a plug-in
NodeTypes == {"http_request", "slack", "custom"}

\* The (category, constructor) pairs of the Register calls
Registrations ==
  {[Category |-> "trigger", Constructor |-> "f"],
   [Category |-> "action", Constructor |-> "g"]}

\* NewNodeRegistry (package node): an empty map
NewNodeRegistry == [nodes |-> <<>>]

Register_NoStore(r, nodeType, category, constructor) ==
  IF nodeType \in DOMAIN r.nodes
  THEN [err |-> "node type already registered", r |-> r]
  ELSE [err |-> "", r |-> r]

\* NodeRegistry.Register (package node): a type is registered once
Register(r, nodeType, category, constructor) ==
  IF nodeType \in DOMAIN r.nodes
  THEN [err |-> "node type already registered", r |-> r]
  ELSE [err |-> "",
        r |-> [nodes |->
                 [t \in DOMAIN r.nodes \cup {nodeType} |->
                    IF t = nodeType
                    THEN [Type |-> nodeType, Category |-> category,
                          Constructor |-> constructor]
                    ELSE r.nodes[t]]]]

\* NodeRegistry.Get (package node)
Get(r, nodeType) ==
  IF nodeType \notin DOMAIN r.nodes
  THEN [err |-> "node type not found", constructor |-> ""]
  ELSE [err |-> "", constructor |-> r.nodes[nodeType].Constructor]

\* NodeRegistry.Register (package nodes, of the engine): returns nothing, the
\* factory of a registered type is replaced
RegisterCore(r, nodeType, factory) ==
  [nodes |-> [t \in DOMAIN r.nodes \cup {nodeType} |->
                IF t = nodeType THEN factory ELSE r.nodes[t]]]

\* NodeRegistry.GetNode (package nodes)
GetNode(r, nodeType) ==
  IF nodeType \notin DOMAIN r.nodes
  THEN [err |-> "node type not registered", node |-> ""]
  ELSE [err |-> "", node |-> r.nodes[nodeType]]

\* The node types NewNodeRegistry (package nodes) registers, in its order
BuiltInNodes ==
  <<"http_request", "webhook", "function", "condition", "loop", "merge",
    "database", "transform">>

RECURSIVE RegisterBuiltIn(_, _)
\* NewNodeRegistry (package nodes): the first i built-in nodes are registered
RegisterBuiltIn(r, i) ==
  IF i = 0 THEN r
  ELSE RegisterCore(RegisterBuiltIn(r, i - 1), BuiltInNodes[i], BuiltInNodes[i])

\* NewNodeRegistry (package nodes)
NewNodeRegistryCore == RegisterBuiltIn([nodes |-> <<>>], Len(BuiltInNodes))

\* The Register calls NewNodeRegistry (package nodes) has made
NewNodeRegistryCalls ==
  [i \in 1..Len(BuiltInNodes) |->
     [op |-> "RegisterCore", nodeType |-> BuiltInNodes[i], err |-> ""]]

\* No call of ProcessItems.  In a call: input.Data, the number of items the
\* loop has passed, output.Data and output.Error, and what the call returned:
\* ret is "" until it returns, then "nil" or "output" with the error err
NoProcessItems ==
  [Data |-> <<>>, i |-> 0, output |-> <<>>, Error |-> "", ret |-> "",
   err |-> ""]

\* The Engine, and a workflow definition ExecuteWorkflow is called with
Init ==
  /\ workflow \in Workflows
  /\ execution = NilExecution
  /\ now = 0
  /\ nodeStates = [n \in workflow.nodes |-> NewNodeState]
  /\ dataFlow = [n \in workflow.nodes |-> [written |-> FALSE, data |-> {}]]
  /\ context = "active"
  /\ stopped = FALSE
  /\ deadlineRunning = FALSE
  /\ nodeChan = <<>>
  /\ nodeChanClosed = FALSE
  /\ resultChan = 0
  /\ graph = NewExecutionGraph({})
  /\ runPc = "execute"
  /\ readyNodes = {}
  /\ cur = NoNode
  /\ running = [n \in workflow.nodes |-> NotRunning]
  /\ workersAlive = 0
  /\ invocations = [n \in workflow.nodes |-> 0]
  /\ registry = NewNodeRegistry
  /\ nodeRegistry = NewNodeRegistryCore
  /\ calls = NewNodeRegistryCalls
  /\ processItems = NoProcessItems
  /\ policy = DefaultPolicy

\* ExecuteWorkflow has returned an execution: its Executor exists
HasExecutor ==
  runPc \notin {"execute", "notActive", "invalid", "createFailed"}

\* Engine.validateWorkflow: what it can return; a definition without defect
\* passes
validateWorkflow(w) ==
  {""} \cup (IF Validate(w) # "" \/ buildExecutionGraph(w).err # ""
             THEN {"workflow validation failed"} ELSE {})

\* e.db.CreateExecution: what it can return
CreateErrors == {"", "failed to create execution record"}

\* Engine.ExecuteWorkflow when validateWorkflow returns validErr and
\* CreateExecution returns createErr: the execution record, the Executor and
\* `go executor.run()`, or an error and no execution
ExecuteWorkflowWith(validErr, createErr) ==
  /\ runPc = "execute"
  /\ IF validErr # ""
     THEN runPc' = "invalid" /\ UNCHANGED execution
     ELSE IF createErr # ""
     THEN runPc' = "createFailed" /\ UNCHANGED execution
     ELSE /\ execution' = [NewExecution EXCEPT !.Status = "running",
                                               !.StartedAt = now]
          /\ runPc' = "build"
  /\ UNCHANGED <<now, workflow, nodeStates, dataFlow, context, stopped,
                 deadlineRunning, nodeChan, nodeChanClosed, resultChan, graph,
                 readyNodes, cur, running, workersAlive, invocations,
                 registry, nodeRegistry, calls, processItems, policy>>

\* Engine.ExecuteWorkflow
ExecuteWorkflow ==
  \E validErr \in validateWorkflow(workflow), createErr \in CreateErrors :
    ExecuteWorkflowWith(validErr, createErr)

Execute_NoGate == ExecuteWorkflow

\* WorkflowService.Execute: a workflow that is not active is refused with
\* ErrWorkflowNotActive and the engine is not called; an active one goes to
\* Engine.ExecuteWorkflow
Execute ==
  IF ~workflow.IsActive
  THEN /\ runPc = "execute"
       /\ runPc' = "notActive"
       /\ UNCHANGED <<execution, now, workflow, nodeStates, dataFlow, context,
                      stopped, deadlineRunning, nodeChan, nodeChanClosed,
                      resultChan, graph, readyNodes, cur, running, workersAlive,
                      invocations,
                      registry, nodeRegistry, calls, processItems, policy>>
  ELSE ExecuteWorkflow

RunBuild_ExtraWorker ==
  /\ runPc = "build"
  /\ LET r == buildExecutionGraph(workflow) IN
       IF r.err # ""
       THEN /\ execution' = handleExecutionError(execution, r.err)
            /\ runPc' = "done"
            /\ context' = cancel(context)
            /\ UNCHANGED <<graph, workersAlive>>
       ELSE /\ graph' = r.g
            /\ workersAlive' = maxParallelNodes + 1
            /\ runPc' = "loop"
            /\ UNCHANGED <<execution, context>>
  /\ UNCHANGED <<now, workflow, nodeStates, dataFlow, stopped, deadlineRunning,
                 nodeChan, nodeChanClosed, resultChan, readyNodes, cur, running,
                 invocations,
                 registry, nodeRegistry, calls, processItems, policy>>

\* run(): buildExecutionGraph, then the worker pool; a build error ends run()
RunBuild ==
  /\ runPc = "build"
  /\ LET r == buildExecutionGraph(workflow) IN
       IF r.err # ""
       THEN /\ execution' = handleExecutionError(execution, r.err)
            /\ runPc' = "done"
            /\ context' = cancel(context)
            /\ UNCHANGED <<graph, workersAlive>>
       ELSE /\ graph' = r.g
            /\ workersAlive' = maxParallelNodes
            /\ runPc' = "loop"
            /\ UNCHANGED <<execution, context>>
  /\ UNCHANGED <<now, workflow, nodeStates, dataFlow, stopped, deadlineRunning,
                 nodeChan, nodeChanClosed, resultChan, readyNodes, cur, running,
                 invocations,
                 registry, nodeRegistry, calls, processItems, policy>>

\* run(): readyNodes is not empty
RunGetReady ==
  /\ runPc = "loop"
  /\ getReadyNodes # {}
  /\ readyNodes' = getReadyNodes
  /\ runPc' = "dispatch"
  /\ UNCHANGED <<execution, now, workflow, nodeStates, dataFlow, context,
                 stopped, deadlineRunning, nodeChan, nodeChanClosed, resultChan,
                 graph, cur, running, workersAlive, invocations,
                 registry, nodeRegistry, calls, processItems, policy>>

RunCompleted_NoCheck ==
  /\ runPc = "loop"
  /\ getReadyNodes = {}
  /\ execution' = handleExecutionSuccess(execution)
  /\ runPc' = "close"
  /\ UNCHANGED <<now, workflow, nodeStates, dataFlow, context, stopped,
                 deadlineRunning, nodeChan, nodeChanClosed, resultChan, graph,
                 readyNodes, cur, running, workersAlive, invocations,
                 registry, nodeRegistry, calls, processItems, policy>>

\* run(): nothing is ready and all nodes are completed
RunCompleted ==
  /\ runPc = "loop"
  /\ getReadyNodes = {}
  /\ allNodesCompleted
  /\ execution' = handleExecutionSuccess(execution)
  /\ runPc' = "close"
  /\ UNCHANGED <<now, workflow, nodeStates, dataFlow, context, stopped,
                 deadlineRunning, nodeChan, nodeChanClosed, resultChan, graph,
                 readyNodes, cur, running, workersAlive, invocations,
                 registry, nodeRegistry, calls, processItems, policy>>

\* run(): nothing is ready, not all nodes are completed, deadlock
RunDeadlock ==
  /\ runPc = "loop"
  /\ getReadyNodes = {}
  /\ ~allNodesCompleted
  /\ hasDeadlock
  /\ execution' = handleExecutionError(execution, "execution deadlock detected")
  /\ runPc' = "close"
  /\ UNCHANGED <<now, workflow, nodeStates, dataFlow, context, stopped,
                 deadlineRunning, nodeChan, nodeChanClosed, resultChan, graph,
                 readyNodes, cur, running, workersAlive, invocations,
                 registry, nodeRegistry, calls, processItems, policy>>

\* run(): select, case <-ex.context.Done(); run() returns
RunQueueCtxDone ==
  /\ runPc = "dispatch"
  /\ context # "active"
  /\ execution' = handleExecutionError(execution, context)
  /\ runPc' = "done"
  /\ readyNodes' = {}
  /\ UNCHANGED <<now, workflow, nodeStates, dataFlow, context, stopped,
                 deadlineRunning, nodeChan, nodeChanClosed, resultChan, graph,
                 cur, running, workersAlive, invocations,
                 registry, nodeRegistry, calls, processItems, policy>>

\* run(): select, case ex.nodeChan <- node
RunQueueSend ==
  /\ runPc = "dispatch"
  /\ Len(nodeChan) < maxParallelNodes
  /\ \E node \in readyNodes :
       /\ nodeChan' = Append(nodeChan, node)
       /\ cur' = node
  /\ runPc' = "mark"
  /\ UNCHANGED <<execution, now, workflow, nodeStates, dataFlow, context,
                 stopped, deadlineRunning, nodeChanClosed, resultChan, graph,
                 readyNodes, running, workersAlive, invocations,
                 registry, nodeRegistry, calls, processItems, policy>>

RunMark_NoUpdate ==
  /\ runPc = "mark"
  /\ readyNodes' = readyNodes \ {cur}
  /\ cur' = NoNode
  /\ runPc' = IF readyNodes \ {cur} = {} THEN "loop" ELSE "dispatch"
  /\ UNCHANGED <<execution, now, workflow, nodeStates, dataFlow, context,
                 stopped, deadlineRunning, nodeChan, nodeChanClosed, resultChan,
                 graph, running, workersAlive, invocations,
                 registry, nodeRegistry, calls, processItems, policy>>

\* run(): ex.updateNodeState(node.ID, NodeStatusRunning) after the send
RunMark ==
  /\ runPc = "mark"
  /\ nodeStates' = updateNodeState(nodeStates, cur, "running")
  /\ readyNodes' = readyNodes \ {cur}
  /\ cur' = NoNode
  /\ runPc' = IF readyNodes \ {cur} = {} THEN "loop" ELSE "dispatch"
  /\ UNCHANGED <<execution, now, workflow, dataFlow, context, stopped,
                 deadlineRunning, nodeChan, nodeChanClosed, resultChan, graph,
                 running, workersAlive, invocations,
                 registry, nodeRegistry, calls, processItems, policy>>

\* run(): close(ex.nodeChan)
RunClose ==
  /\ runPc = "close"
  /\ nodeChanClosed' = TRUE
  /\ runPc' = "wait"
  /\ UNCHANGED <<execution, now, workflow, nodeStates, dataFlow, context,
                 stopped, deadlineRunning, nodeChan, resultChan, graph,
                 readyNodes, cur, running, workersAlive, invocations,
                 registry, nodeRegistry, calls, processItems, policy>>

\* run(): wg.Wait() returns, then the deferred ex.cancel()
RunWait ==
  /\ runPc = "wait"
  /\ workersAlive = 0
  /\ runPc' = "done"
  /\ context' = cancel(context)
  /\ UNCHANGED <<execution, now, workflow, nodeStates, dataFlow, stopped,
                 deadlineRunning, nodeChan, nodeChanClosed, resultChan, graph,
                 readyNodes, cur, running, workersAlive, invocations,
                 registry, nodeRegistry, calls, processItems, policy>>

\* nodeWorker: nodeChan is closed and drained, the worker returns
WorkerExit ==
  /\ IdleWorkers > 0
  /\ nodeChanClosed
  /\ nodeChan = <<>>
  /\ workersAlive' = workersAlive - 1
  /\ UNCHANGED <<execution, now, workflow, nodeStates, dataFlow, context,
                 stopped, deadlineRunning, nodeChan, nodeChanClosed, resultChan,
                 graph, runPc, readyNodes, cur, running, invocations,
                 registry, nodeRegistry, calls, processItems, policy>>

\* Executor.handleNodeError: the node is in error; the first failure fails the
\* execution and cancels the other nodes
handleNodeError(ns, n, err) ==
  /\ nodeStates' = [ns EXCEPT ![n].Status = "error", ![n].Error = err]
  /\ IF IsTerminal(execution.Status)
     THEN UNCHANGED <<execution, context>>
     ELSE /\ execution' = Fail(execution, err, n)
          /\ context' = cancel(context)

\* nodeWorker: a worker receives the next node of nodeChan; executeNode: node
\* implementation, input and credentials, up to the first Execute
WorkerTake ==
  /\ IdleWorkers > 0
  /\ nodeChan # <<>>
  /\ nodeChan' = Tail(nodeChan)
  /\ LET n == Head(nodeChan) IN
     \/ /\ running' = [running EXCEPT
                           ![n] = [NotRunning EXCEPT
                                     !.pc = "exec",
                                     !.inputData = prepareNodeInput(n)]]
        /\ UNCHANGED <<execution, nodeStates, context>>
     \/ \E err \in PrepareErrors :
          /\ handleNodeError(nodeStates, n, err)
          /\ UNCHANGED running
  /\ UNCHANGED <<now, workflow, dataFlow, stopped, deadlineRunning,
                 nodeChanClosed, resultChan, graph, runPc, readyNodes, cur,
                 workersAlive, invocations,
                 registry, nodeRegistry, calls, processItems, policy>>

finalError_AlwaysContinue(n, err, retryCount) ==
  /\ nodeStates' = [nodeStates EXCEPT ![n].Status = "error",
                                      ![n].RetryCount = retryCount,
                                      ![n].OutputData = {"error", err}]
  /\ running' = [running EXCEPT ![n] = [NotRunning EXCEPT !.pc = "store"]]
  /\ UNCHANGED <<execution, context>>

finalError_NeverContinue(n, err, retryCount) ==
  /\ handleNodeError([nodeStates EXCEPT ![n].RetryCount = retryCount], n, err)
  /\ running' = [running EXCEPT ![n] = NotRunning]

\* executeNode: lastError != nil after the retry loop
finalError(n, err, retryCount) ==
  IF workflow.cof[n]
  THEN /\ nodeStates' = [nodeStates EXCEPT ![n].Status = "error",
                                           ![n].RetryCount = retryCount,
                                           ![n].OutputData = {"error", err}]
       /\ running' = [running EXCEPT ![n] = [NotRunning EXCEPT !.pc = "store"]]
       /\ UNCHANGED <<execution, context>>
  ELSE /\ handleNodeError([nodeStates EXCEPT ![n].RetryCount = retryCount],
                          n, err)
       /\ running' = [running EXCEPT ![n] = NotRunning]

NodeExecuteWith_TimeoutFatal(n, err) ==
  /\ running[n].pc = "exec"
  /\ invocations' = [invocations EXCEPT ![n] = @ + 1]
  /\ LET attempt == running[n].attempt IN
       IF err = ""
       THEN \E ports \in EmitChoices(n) :
              /\ nodeStates' = [nodeStates EXCEPT ![n].Status = "success",
                                                  ![n].OutputData = ports]
              /\ running' = [running EXCEPT
                               ![n] = [NotRunning EXCEPT !.pc = "store"]]
              /\ UNCHANGED <<execution, context>>
       ELSE IF ~isRetryableError(err) \/ err = "deadline"
       THEN finalError(n, err, nodeStates[n].RetryCount)
       ELSE IF retryLoopContinues(attempt, workflow.maxRetries[n])
       THEN /\ nodeStates' = [nodeStates EXCEPT ![n].RetryCount = attempt + 1]
            /\ running' =
                 [running EXCEPT ![n].attempt = attempt + 1,
                                 ![n].nodeCtx =
                                   IF err = "deadline" THEN err ELSE @]
            /\ UNCHANGED <<execution, context>>
       ELSE finalError(n, err, attempt + 1)
  /\ UNCHANGED <<now, workflow, dataFlow, stopped, deadlineRunning, nodeChan,
                 nodeChanClosed, resultChan, graph, runPc, readyNodes, cur,
                 workersAlive, registry, nodeRegistry, calls, processItems, policy>>

NodeExecuteWith_RetryAll(n, err) ==
  /\ running[n].pc = "exec"
  /\ invocations' = [invocations EXCEPT ![n] = @ + 1]
  /\ LET attempt == running[n].attempt IN
       IF err = ""
       THEN \E ports \in EmitChoices(n) :
              /\ nodeStates' = [nodeStates EXCEPT ![n].Status = "success",
                                                  ![n].OutputData = ports]
              /\ running' = [running EXCEPT
                               ![n] = [NotRunning EXCEPT !.pc = "store"]]
              /\ UNCHANGED <<execution, context>>
       ELSE IF retryLoopContinues(attempt, workflow.maxRetries[n])
       THEN /\ nodeStates' = [nodeStates EXCEPT ![n].RetryCount = attempt + 1]
            /\ running' =
                 [running EXCEPT ![n].attempt = attempt + 1,
                                 ![n].nodeCtx =
                                   IF err = "deadline" THEN err ELSE @]
            /\ UNCHANGED <<execution, context>>
       ELSE finalError(n, err, attempt + 1)
  /\ UNCHANGED <<now, workflow, dataFlow, stopped, deadlineRunning, nodeChan,
                 nodeChanClosed, resultChan, graph, runPc, readyNodes, cur,
                 workersAlive, registry, nodeRegistry, calls, processItems, policy>>

\* executeNode: one nodeImpl.Execute call of the retry loop, which returns err
\* (nil is ""), and what follows it, up to the status of the node
NodeExecuteWith(n, err) ==
  /\ running[n].pc = "exec"
  /\ invocations' = [invocations EXCEPT ![n] = @ + 1]
  /\ LET attempt == running[n].attempt IN
       IF err = ""
       THEN \E ports \in EmitChoices(n) :
              /\ nodeStates' = [nodeStates EXCEPT ![n].Status = "success",
                                                  ![n].OutputData = ports]
              /\ running' = [running EXCEPT
                               ![n] = [NotRunning EXCEPT !.pc = "store"]]
              /\ UNCHANGED <<execution, context>>
       ELSE IF ~isRetryableError(err)
       THEN finalError(n, err, nodeStates[n].RetryCount)
       ELSE IF retryLoopContinues(attempt, workflow.maxRetries[n])
       THEN /\ nodeStates' = [nodeStates EXCEPT ![n].RetryCount = attempt + 1]
            /\ running' =
                 [running EXCEPT ![n].attempt = attempt + 1,
                                 ![n].nodeCtx =
                                   IF err = "deadline" THEN err ELSE @]
            /\ UNCHANGED <<execution, context>>
       ELSE finalError(n, err, attempt + 1)
  /\ UNCHANGED <<now, workflow, dataFlow, stopped, deadlineRunning, nodeChan,
                 nodeChanClosed, resultChan, graph, runPc, readyNodes, cur,
                 workersAlive, registry, nodeRegistry, calls, processItems, policy>>

\* executeNode: one pass of the retry loop
NodeExecute(n) == \E err \in {""} \cup ExecuteErrors : NodeExecuteWith(n, err)

\* ex.storeNodeExecutionData: what it can return
StoreErrors == {"", "failed to store node execution data"}

\* executeNode: ex.dataFlow.SetNodeData(nodeExec.ID, output.Data), then
\* ex.storeNodeExecutionData returns storeErr, which is logged
NodeStoreWith(n, storeErr) ==
  /\ running[n].pc = "store"
  /\ dataFlow' = SetNodeData(dataFlow, n, nodeStates[n].OutputData).df
  /\ running' = [running EXCEPT ![n].pc = "send"]
  /\ UNCHANGED <<execution, now, workflow, nodeStates, context, stopped,
                 deadlineRunning, nodeChan, nodeChanClosed, resultChan, graph,
                 runPc, readyNodes, cur, workersAlive, invocations,
                 registry, nodeRegistry, calls, processItems, policy>>

\* executeNode: the output is stored
NodeStore(n) == \E storeErr \in StoreErrors : NodeStoreWith(n, storeErr)

\* executeNode: ex.resultChan <- &NodeResult{...}
NodeSend(n) ==
  /\ running[n].pc = "send"
  /\ resultChan < maxParallelNodes
  /\ resultChan' = resultChan + 1
  /\ running' = [running EXCEPT ![n] = NotRunning]
  /\ UNCHANGED <<execution, now, workflow, nodeStates, dataFlow, context,
                 stopped, deadlineRunning, nodeChan, nodeChanClosed, graph,
                 runPc, readyNodes, cur, workersAlive, invocations,
                 registry, nodeRegistry, calls, processItems, policy>>

\* Executor.resultCollector: receives the results of the workers
ResultCollector ==
  /\ resultChan > 0
  /\ resultChan' = resultChan - 1
  /\ UNCHANGED <<execution, now, workflow, nodeStates, dataFlow, context,
                 stopped, deadlineRunning, nodeChan, nodeChanClosed, graph,
                 runPc, readyNodes, cur, running, workersAlive, invocations,
                 registry, nodeRegistry, calls, processItems, policy>>

\* The deadline of context.WithTimeout(ctx, e.maxExecutionTime) passes
DeadlineFires ==
  /\ HasExecutor
  /\ context = "active"
  /\ context' = "deadline"
  /\ deadlineRunning' = (~IsTerminal(execution.Status) /\ Busy # {})
  /\ UNCHANGED <<execution, now, workflow, nodeStates, dataFlow, stopped,
                 nodeChan, nodeChanClosed, resultChan, graph, runPc, readyNodes,
                 cur, running, workersAlive, invocations,
                 registry, nodeRegistry, calls, processItems, policy>>

\* Cancel(executionId): the external stop request cancels the root context
CancelExecution ==
  /\ HasExecutor
  /\ context = "active"
  /\ ~IsTerminal(execution.Status)
  /\ context' = "canceled"
  /\ stopped' = TRUE
  /\ UNCHANGED <<execution, now, workflow, nodeStates, dataFlow,
                 deadlineRunning, nodeChan, nodeChanClosed, resultChan, graph,
                 runPc, readyNodes, cur, running, workersAlive, invocations,
                 registry, nodeRegistry, calls, processItems, policy>>

Next ==
  \/ ExecuteWorkflow
  \/ RunBuild
  \/ RunGetReady
  \/ RunCompleted
  \/ RunDeadlock
  \/ RunQueueCtxDone
  \/ RunQueueSend
  \/ RunMark
  \/ RunClose
  \/ RunWait
  \/ WorkerTake
  \/ WorkerExit
  \/ \E n \in workflow.nodes : NodeExecute(n)
  \/ \E n \in workflow.nodes : NodeStore(n)
  \/ \E n \in workflow.nodes : NodeSend(n)
  \/ ResultCollector
  \/ DeadlineFires
  \/ CancelExecution

Spec == Init /\ [][Next]_vars

\* ------------------------------------------------------ entity, any calls
InitEntity ==
  /\ execution = NewExecution
  /\ now = 0
  /\ workflow = Definition([nodes |-> {}, conns |-> <<>>], NoNode, 0)
  /\ nodeStates = <<>>
  /\ dataFlow = <<>>
  /\ context = "active"
  /\ stopped = FALSE
  /\ deadlineRunning = FALSE
  /\ nodeChan = <<>>
  /\ nodeChanClosed = FALSE
  /\ resultChan = 0
  /\ graph = [nodes |-> {}, edges |-> <<>>, inDegree |-> <<>>]
  /\ runPc = "entity"
  /\ readyNodes = {}
  /\ cur = NoNode
  /\ running = <<>>
  /\ workersAlive = 0
  /\ invocations = <<>>
  /\ registry = NewNodeRegistry
  /\ nodeRegistry = NewNodeRegistryCore
  /\ calls = NewNodeRegistryCalls
  /\ processItems = NoProcessItems
  /\ policy = DefaultPolicy

\* time passes between two calls
Tick ==
  /\ now < MaxClock
  /\ now' = now + 1
  /\ UNCHANGED <<execution, executorVars>>

CallStart ==
  /\ execution' = Start(execution)
  /\ UNCHANGED <<now, executorVars>>

CallComplete ==
  /\ \E out \in EntityOutputs : execution' = Complete(execution, out)
  /\ UNCHANGED <<now, executorVars>>

CallFail ==
  /\ \E err \in EntityErrors, n \in EntityNodes :
       execution' = Fail(execution, err, n)
  /\ UNCHANGED <<now, executorVars>>

CallCancel ==
  /\ execution' = Cancel(execution)
  /\ UNCHANGED <<now, executorVars>>

CallTimeout ==
  /\ execution' = Timeout(execution)
  /\ UNCHANGED <<now, executorVars>>

NextEntity ==
  \/ Tick
  \/ CallStart
  \/ CallComplete
  \/ CallFail
  \/ CallCancel
  \/ CallTimeout

SpecEntity == InitEntity /\ [][NextEntity]_vars

\* ------------------------------------- workflow definitions, any calls
\* The Engine, and a workflow definition, not active
InitWorkflow ==
  /\ workflow \in WorkflowDefinitions
  /\ execution = NilExecution
  /\ now = 0
  /\ nodeStates = [n \in workflow.nodes |-> NewNodeState]
  /\ dataFlow = [n \in workflow.nodes |-> [written |-> FALSE, data |-> {}]]
  /\ context = "active"
  /\ stopped = FALSE
  /\ deadlineRunning = FALSE
  /\ nodeChan = <<>>
  /\ nodeChanClosed = FALSE
  /\ resultChan = 0
  /\ graph = NewExecutionGraph({})
  /\ runPc = "execute"
  /\ readyNodes = {}
  /\ cur = NoNode
  /\ running = [n \in workflow.nodes |-> NotRunning]
  /\ workersAlive = 0
  /\ invocations = [n \in workflow.nodes |-> 0]
  /\ registry = NewNodeRegistry
  /\ nodeRegistry = NewNodeRegistryCore
  /\ calls = NewNodeRegistryCalls
  /\ processItems = NoProcessItems
  /\ policy = DefaultPolicy

CallActivate ==
  /\ workflow' = Activate(workflow).w
  /\ UNCHANGED <<execution, now, nodeStates, dataFlow, context, stopped,
                 deadlineRunning, nodeChan, nodeChanClosed, resultChan, graph,
                 runPc, readyNodes, cur, running, workersAlive, invocations,
                 registry, nodeRegistry, calls, processItems, policy>>

CallDeactivate ==
  /\ workflow' = Deactivate(workflow)
  /\ UNCHANGED <<execution, now, nodeStates, dataFlow, context, stopped,
                 deadlineRunning, nodeChan, nodeChanClosed, resultChan, graph,
                 runPc, readyNodes, cur, running, workersAlive, invocations,
                 registry, nodeRegistry, calls, processItems, policy>>

NextWorkflow ==
  \/ CallActivate
  \/ CallDeactivate
  \/ Execute
  \/ ExecuteWorkflow
  \/ RunBuild

SpecWorkflow == InitWorkflow /\ [][NextWorkflow]_vars

\* ------------------------------------------------ data flow, any calls
\* The outputs SetNodeData is called with
DataItems ==
  {{}, {"main"}, {"true"}, {"false"}, {"true", "false"}, {"error", "fatal"}}

\* NewDataFlow, for the executor of the three-node workflow
InitDataFlow ==
  /\ workflow = Definition(WfParallel, NoNode, 0)
  /\ execution = [NewExecution EXCEPT !.Status = "running"]
  /\ now = 0
  /\ nodeStates = [n \in workflow.nodes |-> NewNodeState]
  /\ dataFlow = [n \in workflow.nodes |-> [written |-> FALSE, data |-> {}]]
  /\ context = "active"
  /\ stopped = FALSE
  /\ deadlineRunning = FALSE
  /\ nodeChan = <<>>
  /\ nodeChanClosed = FALSE
  /\ resultChan = 0
  /\ graph = NewExecutionGraph({})
  /\ runPc = "dataflow"
  /\ readyNodes = {}
  /\ cur = NoNode
  /\ running = [n \in workflow.nodes |-> NotRunning]
  /\ workersAlive = 0
  /\ invocations = [n \in workflow.nodes |-> 0]
  /\ registry = NewNodeRegistry
  /\ nodeRegistry = NewNodeRegistryCore
  /\ calls = NewNodeRegistryCalls
  /\ processItems = NoProcessItems
  /\ policy = DefaultPolicy

\* A call of SetNodeData; invocations counts the calls for the node
CallSetNodeData ==
  \E n \in workflow.nodes, data \in DataItems :
    /\ invocations[n] < MaxPuts
    /\ dataFlow' = SetNodeData(dataFlow, n, data).df
    /\ invocations' = [invocations EXCEPT ![n] = @ + 1]
    /\ UNCHANGED <<execution, now, workflow, nodeStates, context, stopped,
                   deadlineRunning, nodeChan, nodeChanClosed, resultChan, graph,
                   runPc, readyNodes, cur, running, workersAlive,
                   registry, nodeRegistry, calls, processItems, policy>>

NextDataFlow == CallSetNodeData

SpecDataFlow == InitDataFlow /\ [][NextDataFlow]_vars

\* ------------------------------------------- node registries, any calls
\* A new NodeRegistry of package node, and the engine's NodeRegistry
InitRegistry ==
  /\ workflow = Definition([nodes |-> {}, conns |-> <<>>], NoNode, 0)
  /\ execution = NilExecution
  /\ now = 0
  /\ nodeStates = <<>>
  /\ dataFlow = <<>>
  /\ context = "active"
  /\ stopped = FALSE
  /\ deadlineRunning = FALSE
  /\ nodeChan = <<>>
  /\ nodeChanClosed = FALSE
  /\ resultChan = 0
  /\ graph = NewExecutionGraph({})
  /\ runPc = "registry"
  /\ readyNodes = {}
  /\ cur = NoNode
  /\ running = <<>>
  /\ workersAlive = 0
  /\ invocations = <<>>
  /\ registry = NewNodeRegistry
  /\ nodeRegistry = NewNodeRegistryCore
  /\ calls = NewNodeRegistryCalls
  /\ processItems = NoProcessItems
  /\ policy = DefaultPolicy

\* The calls made after the registries were constructed
CallsMade == Len(calls) - Len(NewNodeRegistryCalls)

CallRegister ==
  \E nodeType \in NodeTypes, reg \in Registrations :
    LET res == Register(registry, nodeType, reg.Category, reg.Constructor) IN
      /\ CallsMade < MaxCalls
      /\ registry' = res.r
      /\ calls' = Append(calls, [op |-> "Register", nodeType |-> nodeType,
                                 err |-> res.err])
      /\ UNCHANGED <<execution, now, workflow, nodeStates, dataFlow, context,
                     stopped, deadlineRunning, nodeChan, nodeChanClosed,
                     resultChan, graph, runPc, readyNodes, cur, running,
                     workersAlive, invocations, nodeRegistry,
                   processItems, policy>>

CallGet ==
  \E nodeType \in NodeTypes :
    /\ CallsMade < MaxCalls
    /\ calls' = Append(calls, [op |-> "Get", nodeType |-> nodeType,
                               err |-> Get(registry, nodeType).err])
    /\ UNCHANGED <<execution, now, workflow, nodeStates, dataFlow, context,
                   stopped, deadlineRunning, nodeChan, nodeChanClosed,
                   resultChan, graph, runPc, readyNodes, cur, running,
                   workersAlive, invocations, registry, nodeRegistry,
                   processItems, policy>>

CallRegisterCore ==
  \E nodeType \in NodeTypes, reg \in Registrations :
    /\ CallsMade < MaxCalls
    /\ nodeRegistry' = RegisterCore(nodeRegistry, nodeType, reg.Constructor)
    /\ calls' = Append(calls, [op |-> "RegisterCore", nodeType |-> nodeType,
                               err |-> ""])
    /\ UNCHANGED <<execution, now, workflow, nodeStates, dataFlow, context,
                   stopped, deadlineRunning, nodeChan, nodeChanClosed,
                   resultChan, graph, runPc, readyNodes, cur, running,
                   workersAlive, invocations, registry,
                   processItems, policy>>

CallGetNode ==
  \E nodeType \in NodeTypes :
    /\ CallsMade < MaxCalls
    /\ calls' = Append(calls, [op |-> "GetNode", nodeType |-> nodeType,
                               err |-> GetNode(nodeRegistry, nodeType).err])
    /\ UNCHANGED <<execution, now, workflow, nodeStates, dataFlow, context,
                   stopped, deadlineRunning, nodeChan, nodeChanClosed,
                   resultChan, graph, runPc, readyNodes, cur, running,
                   workersAlive, invocations, registry, nodeRegistry,
                   processItems, policy>>

NextRegistry ==
  \/ CallRegister
  \/ CallGet
  \/ CallRegisterCore
  \/ CallGetNode

SpecRegistry == InitRegistry /\ [][NextRegistry]_vars

\* ------------------------------------------- the retry loop, its sleeps
\* executeNode of a node with Node.MaxRetries from 0 to MaxSleeps, at the
\* first Execute
InitBackoff ==
  /\ workflow \in {Definition([nodes |-> {"a"}, conns |-> <<>>], NoNode, r) :
                     r \in 0..MaxSleeps}
  /\ execution = [NewExecution EXCEPT !.Status = "running"]
  /\ now = 0
  /\ nodeStates = [n \in workflow.nodes |-> NewNodeState]
  /\ dataFlow = [n \in workflow.nodes |-> [written |-> FALSE, data |-> {}]]
  /\ context = "active"
  /\ stopped = FALSE
  /\ deadlineRunning = FALSE
  /\ nodeChan = <<>>
  /\ nodeChanClosed = FALSE
  /\ resultChan = 0
  /\ graph = NewExecutionGraph({})
  /\ runPc = "backoff"
  /\ readyNodes = {}
  /\ cur = NoNode
  /\ running = [n \in workflow.nodes |-> [NotRunning EXCEPT !.pc = "exec"]]
  /\ workersAlive = 0
  /\ invocations = [n \in workflow.nodes |-> 0]
  /\ registry = NewNodeRegistry
  /\ nodeRegistry = NewNodeRegistryCore
  /\ calls = <<>>
  /\ processItems = NoProcessItems
  /\ policy = DefaultPolicy

\* The retry loop: nodeImpl.Execute returns err; the loop ends on nil, on an
\* error that is not retryable and after the last attempt
BackoffExecute ==
  \E err \in {"", "retryable", "fatal"} :
    /\ running["a"].pc = "exec"
    /\ invocations' = [invocations EXCEPT !["a"] = @ + 1]
    /\ running' =
         [running EXCEPT !["a"] =
            IF /\ err # ""
               /\ isRetryableError(err)
               /\ retryLoopContinues(running["a"].attempt,
                                     workflow.maxRetries["a"])
            THEN [running["a"] EXCEPT !.pc = "sleep", !.attempt = @ + 1]
            ELSE [running["a"] EXCEPT !.pc = "done"]]
    /\ UNCHANGED <<execution, now, workflow, nodeStates, dataFlow, context,
                   stopped, deadlineRunning, nodeChan, nodeChanClosed,
                   resultChan, graph, runPc, readyNodes, cur, workersAlive,
                   registry, nodeRegistry, calls, processItems, policy>>

\* The retry loop: `if attempt > 0 { ...; time.Sleep(backoff) }`
BackoffSleep ==
  /\ running["a"].pc = "sleep"
  /\ calls' = Append(calls, [op |-> "Sleep",
                             d |-> backoff(running["a"].attempt)])
  /\ running' = [running EXCEPT !["a"].pc = "exec"]
  /\ UNCHANGED <<execution, now, workflow, nodeStates, dataFlow, context,
                 stopped, deadlineRunning, nodeChan, nodeChanClosed,
                 resultChan, graph, runPc, readyNodes, cur, workersAlive,
                 invocations, registry, nodeRegistry,
                   processItems, policy>>

NextBackoff ==
  \/ BackoffExecute
  \/ BackoffSleep

SpecBackoff == InitBackoff /\ [][NextBackoff]_vars

\* ------------------------------------- one execution, fair scheduling
\* The execution of the workflow a -> b with one retry of a
InitFair ==
  /\ Init
  /\ workflow = Definition(WfChain, NoNode, 1)

\* The Go scheduler runs every goroutine that can run: run(), the workers in
\* their own statements and the result collector take the steps they can take.
\* Nothing makes nodeImpl.Execute return: a node implementation is free not to
\* look at its context.
Fairness ==
  /\ WF_vars(RunBuild)
  /\ WF_vars(RunGetReady)
  /\ WF_vars(RunCompleted)
  /\ WF_vars(RunDeadlock)
  /\ WF_vars(RunQueueCtxDone \/ RunQueueSend)
  /\ WF_vars(RunMark)
  /\ WF_vars(RunClose)
  /\ WF_vars(RunWait)
  /\ WF_vars(WorkerTake)
  /\ WF_vars(WorkerExit)
  /\ WF_vars(ResultCollector)
  /\ \A n \in WfChain.nodes : WF_vars(NodeStore(n)) /\ WF_vars(NodeSend(n))

SpecFair == InitFair /\ [][Next]_vars /\ Fairness

\* ------------------------------------------ ProcessItems, one call
\* The items of input.Data
Items == {"x", "y"}

\* What the item function returns for an item when it does not fail
Processed(item) == <<"fn", item>>

\* The errors of the item function ("" is nil)
ItemErrors == {"", "bad item"}

\* ProcessItems is called with a context that is not done yet
InitProcessItems ==
  /\ workflow = Definition([nodes |-> {}, conns |-> <<>>], NoNode, 0)
  /\ execution = [NewExecution EXCEPT !.Status = "running"]
  /\ now = 0
  /\ nodeStates = <<>>
  /\ dataFlow = <<>>
  /\ context = "active"
  /\ stopped = FALSE
  /\ deadlineRunning = FALSE
  /\ nodeChan = <<>>
  /\ nodeChanClosed = FALSE
  /\ resultChan = 0
  /\ graph = NewExecutionGraph({})
  /\ runPc = "processItems"
  /\ readyNodes = {}
  /\ cur = NoNode
  /\ running = <<>>
  /\ workersAlive = 0
  /\ invocations = <<>>
  /\ registry = NewNodeRegistry
  /\ nodeRegistry = NewNodeRegistryCore
  /\ calls = <<>>
  /\ processItems \in
       {[NoProcessItems EXCEPT !.Data = data] :
          data \in UNION {[1..k -> Items] : k \in 0..MaxItems}}
  /\ policy = DefaultPolicy

\* The context is cancelled or its deadline passes, at any moment of the call
CtxDone ==
  /\ context = "active"
  /\ context' \in {"canceled", "deadline"}
  /\ UNCHANGED <<execution, now, workflow, nodeStates, dataFlow, stopped,
                 deadlineRunning, nodeChan, nodeChanClosed, resultChan, graph,
                 runPc, readyNodes, cur, running, workersAlive, invocations,
                 registry, nodeRegistry, calls, processItems, policy>>

ProcessItemsNext_NoSelect ==
  /\ processItems.ret = ""
  /\ processItems.i < Len(processItems.Data)
  /\ LET i == processItems.i
         item == processItems.Data[i + 1]
     IN \E err \in ItemErrors :
          /\ calls' = Append(calls, [op |-> "fn", item |-> item, i |-> i])
          /\ processItems' =
               IF err # ""
               THEN [processItems EXCEPT !.Error = err, !.ret = "output",
                                         !.err = err]
               ELSE [processItems EXCEPT
                       !.output = Append(@, Processed(item)),
                       !.i = i + 1]
  /\ UNCHANGED <<execution, now, workflow, nodeStates, dataFlow, context,
                 stopped, deadlineRunning, nodeChan, nodeChanClosed, resultChan,
                 graph, runPc, readyNodes, cur, running, workersAlive,
                 invocations, registry, nodeRegistry, policy>>

\* ProcessItems: one pass of `for i, item := range input.Data`: the select
\* takes `case <-ctx.Done()` when the context is done, and the default case,
\* which calls fn, only when it is not
ProcessItemsNext ==
  /\ processItems.ret = ""
  /\ processItems.i < Len(processItems.Data)
  /\ LET i == processItems.i
         item == processItems.Data[i + 1]
     IN IF context # "active"
        THEN /\ processItems' = [processItems EXCEPT
                                   !.ret = "nil", !.err = "execution cancelled"]
             /\ UNCHANGED calls
        ELSE \E err \in ItemErrors :
               /\ calls' = Append(calls, [op |-> "fn", item |-> item, i |-> i])
               /\ processItems' =
                    IF err # ""
                    THEN [processItems EXCEPT !.Error = err, !.ret = "output",
                                              !.err = err]
                    ELSE [processItems EXCEPT
                            !.output = Append(@, Processed(item)),
                            !.i = i + 1]
  /\ UNCHANGED <<execution, now, workflow, nodeStates, dataFlow, context,
                 stopped, deadlineRunning, nodeChan, nodeChanClosed, resultChan,
                 graph, runPc, readyNodes, cur, running, workersAlive,
                 invocations, registry, nodeRegistry, policy>>

\* ProcessItems: the loop is over, `return output, nil`
ProcessItemsReturn ==
  /\ processItems.ret = ""
  /\ processItems.i = Len(processItems.Data)
  /\ processItems' = [processItems EXCEPT !.ret = "output"]
  /\ UNCHANGED <<execution, now, workflow, nodeStates, dataFlow, context,
                 stopped, deadlineRunning, nodeChan, nodeChanClosed, resultChan,
                 graph, runPc, readyNodes, cur, running, workersAlive,
                 invocations, registry, nodeRegistry, calls, policy>>

NextProcessItems ==
  \/ CtxDone
  \/ ProcessItemsNext
  \/ ProcessItemsReturn

SpecProcessItems == InitProcessItems /\ [][NextProcessItems]_vars

\* ------------------------------------------- retries of an execution
\* A first execution (RetryCount 0) and the RetryPolicy of its retries
InitRetry ==
  /\ execution = NewExecution
  /\ now = 0
  /\ workflow = Definition([nodes |-> {}, conns |-> <<>>], NoNode, 0)
  /\ nodeStates = <<>>
  /\ dataFlow = <<>>
  /\ context = "active"
  /\ stopped = FALSE
  /\ deadlineRunning = FALSE
  /\ nodeChan = <<>>
  /\ nodeChanClosed = FALSE
  /\ resultChan = 0
  /\ graph = [nodes |-> {}, edges |-> <<>>, inDegree |-> <<>>]
  /\ runPc = "retry"
  /\ readyNodes = {}
  /\ cur = NoNode
  /\ running = <<>>
  /\ workersAlive = 0
  /\ invocations = <<>>
  /\ registry = NewNodeRegistry
  /\ nodeRegistry = NewNodeRegistryCore
  /\ calls = <<>>
  /\ processItems = NoProcessItems
  /\ policy \in {[MaxRetries |-> m] : m \in 0..MaxPolicyRetries}

\* `if e.CanRetry(policy) { retry := e.CreateRetry() }`: the retry takes the
\* place of the execution; calls logs the executions of the chain it replaced
CallCreateRetry ==
  /\ CanRetry(execution, policy)
  /\ execution' = CreateRetry(execution)
  /\ calls' = Append(calls, [op |-> "CreateRetry",
                             RetryCount |-> execution.RetryCount])
  /\ UNCHANGED <<now, workflow, nodeStates, dataFlow, context, stopped,
                 deadlineRunning, nodeChan, nodeChanClosed, resultChan, graph,
                 runPc, readyNodes, cur, running, workersAlive, invocations,
                 registry, nodeRegistry, processItems, policy>>

NextRetry ==
  \/ CallStart
  \/ CallComplete
  \/ CallFail
  \/ CallCancel
  \/ CallTimeout
  \/ CallCreateRetry

SpecRetry == InitRetry /\ [][NextRetry]_vars

\* C1: once the status of an execution is terminal, no later Start, Complete,
\* Fail, Cancel or Timeout call changes it.
C1_TerminalStatusKept ==
  [][IsTerminal(execution.Status) => execution'.Status = execution.Status]_vars

\* ------------------------------------------------------------ properties
\* The workflow passes buildExecutionGraph: known nodes, no self-loop, acyclic
ValidWorkflow == buildExecutionGraph(workflow).err = ""

\* The connections of the workflow between nodes of the workflow
Connections ==
  {workflow.conns[i] : i \in
     {j \in 1..Len(workflow.conns) :
        /\ workflow.conns[j].src \in workflow.nodes
        /\ workflow.conns[j].tgt \in workflow.nodes}}

\* The node has been queued, is executed or has been executed
Dispatched(n) ==
  \/ nodeStates[n].Status # "waiting"
  \/ cur = n
  \/ \E i \in 1..Len(nodeChan) : nodeChan[i] = n
  \/ running[n].pc # "idle"
  \/ invocations[n] > 0

\* The error executeNode ended with: handleNodeError records it in the node
\* state, continue-on-fail in the output data
NodeError(n) ==
  IF nodeStates[n].Error # "" THEN nodeStates[n].Error
  ELSE IF "error" \in nodeStates[n].OutputData
       THEN CHOOSE e \in nodeStates[n].OutputData \ {"error"} : TRUE
       ELSE ""

\* C2, as stated: for a valid acyclic workflow, once the execution has a terminal
\* status every node is Success, Error or Skipped; none is left waiting or
\* running.
C2_NodesTerminalWhenExecutionTerminal ==
  (ValidWorkflow /\ IsTerminal(execution.Status))
    => \A n \in workflow.nodes : nodeStates[n].Status \in NodeTerminal

\* C2, amended: for a valid acyclic workflow, once the execution has completed
\* with status Success every node is Success, Error or Skipped.
C2_NodesTerminalOnSuccess ==
  (ValidWorkflow /\ execution.Status = "success")
    => \A n \in workflow.nodes : nodeStates[n].Status \in NodeTerminal

C2_Witness ==
  /\ execution.Status = "success"
  /\ Cardinality(workflow.nodes) = 3
  /\ \A n \in workflow.nodes : nodeStates[n].Status \in NodeTerminal

\* C3: for every connection producer -> consumer, the consumer is not queued
\* or run before the output of the producer is in the data flow store.
C3_ConsumerAfterProducer ==
  \A c \in Connections : Dispatched(c.tgt) => dataFlow[c.src].written

C3_Witness ==
  \E c \in Connections :
    /\ running[c.tgt].pc = "exec"
    /\ dataFlow[c.src].written

C5_NoDispatchAfterAbort ==
  [][(execution.Status = "error" /\ execution.ErrorNode \in workflow.nodes)
       => (context # "active" /\ Len(nodeChan') <= Len(nodeChan))]_vars

\* C6: when the deadline fires while a node is running, the terminal status of
\* the execution is Timeout and no node is queued after the deadline.
C6_DeadlineGivesTimeout ==
  [][deadlineRunning
       => /\ IsTerminal(execution'.Status) => execution'.Status = "timeout"
          /\ Len(nodeChan') <= Len(nodeChan)]_vars

\* C7: after an external Cancel of the running execution of a valid workflow
\* the status is Running or Cancelled, never Error (or another terminal status).
C7_CancelGivesCancelled ==
  (stopped /\ ValidWorkflow) => execution.Status \in {"running", "cancelled"}

\* A connection whose port the producer resolved without activating it
SkippedInput(c) ==
  /\ dataFlow[c.src].written
  /\ "error" \notin dataFlow[c.src].data
  /\ c.port \notin dataFlow[c.src].data

\* C8: a node all of whose incoming connections are skipped does not run: it
\* is never queued or executed, and it is Skipped when the execution succeeds.
C8_SkippedBranchDoesNotRun ==
  \A n \in workflow.nodes :
    (/\ \E c \in Connections : c.tgt = n
     /\ \A c \in Connections : c.tgt = n => SkippedInput(c))
      => /\ ~Dispatched(n) \/ nodeStates[n].Status = "skipped"
         /\ execution.Status = "success" => nodeStates[n].Status = "skipped"

C10_RetryInvocations ==
  \A n \in workflow.nodes :
    /\ invocations[n] <= 1 + workflow.maxRetries[n]
    /\ (running[n].pc # "exec" /\ isRetryableError(NodeError(n)))
         => invocations[n] = 1 + workflow.maxRetries[n]

C10_Witness ==
  \E n \in workflow.nodes :
    /\ workflow.maxRetries[n] = 2
    /\ running[n].pc # "exec"
    /\ NodeError(n) = "retryable"
    /\ invocations[n] = 3

\* The final failure of the node was absorbed by continue-on-fail: its output
\* carries the error
Absorbed(n) == workflow.cof[n] /\ "error" \in nodeStates[n].OutputData

\* The step is the final failed Execute attempt of the node
FinalFailure(n) ==
  /\ invocations'[n] = invocations[n] + 1
  /\ nodeStates'[n].Status = "error"

InFlight ==
  {n \in workflow.nodes :
     \/ \E i \in 1..Len(nodeChan) : nodeChan[i] = n
     \/ running[n].pc # "idle"}

\* C12, as stated: at most maxParallelNodes nodes are dispatched and not yet
\* reported back.
C12_InFlightAtMostPool == Cardinality(InFlight) <= maxParallelNodes

\* C12, amended: at most maxParallelNodes nodes are in executeNode at once,
\* and at most maxParallelNodes dispatched nodes wait in nodeChan.
C12_ExecutingAtMostPool ==
  /\ Cardinality(Busy) <= maxParallelNodes
  /\ Len(nodeChan) <= maxParallelNodes

C12_Witness ==
  /\ Cardinality(Busy) = maxParallelNodes
  /\ nodeChan # <<>>
  /\ Cardinality(InFlight) > maxParallelNodes

\* C13: a node is sent to nodeChan only if it has never been dispatched, and
\* the ready set the supervising loop computes holds no node that is queued,
\* running or terminal.
C13_DispatchedAtMostOnce ==
  [][/\ \A n \in workflow.nodes :
          nodeChan' = Append(nodeChan, n) => ~Dispatched(n)
     /\ runPc = "loop" => \A n \in getReadyNodes : ~Dispatched(n)]_vars

C13_Witness ==
  /\ runPc = "dispatch"
  /\ \E c \in Connections :
       /\ c.tgt \in readyNodes
       /\ c.src \notin readyNodes
       /\ nodeStates[c.src].Status \in NodeTerminal \cup {"running"}
       /\ invocations[c.src] > 0

\* C14: once the status of a node is Success, Error or Skipped, no step of
\* run() or of a worker changes it.
C14_NodeTerminalKept ==
  [][\A n \in workflow.nodes :
       nodeStates[n].Status \in NodeTerminal
         => nodeStates'[n].Status = nodeStates[n].Status]_vars

RECURSIVE Closure(_, _)
\* The nodes reached from the nodes of S by any number of edges
Closure(g, S) ==
  LET T == S \cup UNION {Neighbors(g, m) : m \in S}
  IN IF T = S THEN S ELSE Closure(g, T)

\* The graph has a directed cycle: a node reaches itself by one edge or more
HasDirectedCycle(g) == \E n \in g.nodes : n \in Closure(g, Neighbors(g, n))

\* The graph of the connections of the workflow, without any check but
\* AddEdge's
ConnectionGraph == AddEdges(NewExecutionGraph(workflow.nodes), workflow.conns, 1)

\* The position of a node in a sequence of nodes
Position(seq, n) == CHOOSE i \in 1..Len(seq) : seq[i] = n

HasUnknownNode(w) ==
  \E i \in 1..Len(w.conns) :
    w.conns[i].src \notin w.nodes \/ w.conns[i].tgt \notin w.nodes

\* A connection of the definition leaves and enters the same node
HasSelfLoop(w) == \E i \in 1..Len(w.conns) : w.conns[i].src = w.conns[i].tgt

\* run() has left buildExecutionGraph with an error and without a graph
BuildRejected ==
  /\ runPc = "done"
  /\ execution.Status = "error"
  /\ graph = NewExecutionGraph({})

\* C16: a definition with a connection from or to an unknown node id is never
\* made active by Activate, and the graph build rejects it without a graph.
C16_UnknownNodeRejected ==
  HasUnknownNode(workflow)
    => /\ ~workflow.IsActive
       /\ runPc \in {"loop", "done"} => BuildRejected

\* C17: a definition with a self-loop connection fails Validate, with the
\* self-loop error when no earlier check fails first, Activate never makes it
\* active, and the graph build rejects it without a graph.
C17_SelfLoopRejected ==
  HasSelfLoop(workflow)
    => /\ Validate(workflow) # ""
       /\ (/\ ValidateNodes(workflow) = ""
           /\ \A i \in 1..Len(workflow.conns) :
                workflow.conns[i].src # "" /\ workflow.conns[i].tgt # "")
            => Validate(workflow) = "ErrConnectionSelfLoop"
       /\ Activate(workflow).err # ""
       /\ ~workflow.IsActive
       /\ runPc \in {"loop", "done"} => BuildRejected

C17_Witness ==
  /\ HasSelfLoop(workflow)
  /\ ~HasUnknownNode(workflow)
  /\ Len(workflow.conns) = 3
  /\ Validate(workflow) = "ErrConnectionSelfLoop"
  /\ BuildRejected

\* C18: when buildExecutionGraph fails on the definition, the execution is
\* never Running and no node is ever dispatched.
C18_BuildFailureNeverRunning ==
  ~ValidWorkflow
    => /\ execution.Status # "running"
       /\ \A n \in workflow.nodes : ~Dispatched(n)

C20_SinkFailureNoEffect ==
  [][/\ \A validErr \in validateWorkflow(workflow), createErr \in CreateErrors :
          ExecuteWorkflowWith(validErr, createErr)
            => ExecuteWorkflowWith(validErr, "")
     /\ \A n \in workflow.nodes, storeErr \in StoreErrors :
          NodeStoreWith(n, storeErr) => NodeStoreWith(n, "")]_vars

RegisteredBefore(i, ops, nodeType) ==
  \E j \in 1..(i - 1) :
    /\ calls[j].op \in ops
    /\ calls[j].nodeType = nodeType
    /\ calls[j].err = ""

\* C22: for every sequence of Register and lookup calls, the lookup of a node
\* type fails if and only if no Register call for that type has succeeded
\* before it, on the registry of package node (Register, Get) and on the
\* registry of the engine (Register, GetNode).
C22_LookupFailsIffNotRegistered ==
  \A i \in 1..Len(calls) :
    /\ calls[i].op = "Get"
         => (calls[i].err # ""
               <=> ~RegisteredBefore(i, {"Register"}, calls[i].nodeType))
    /\ calls[i].op = "GetNode"
         => (calls[i].err # ""
               <=> ~RegisteredBefore(i, {"RegisterCore"}, calls[i].nodeType))

\* A lookup that fails, a Register of the type that succeeds, then a lookup
\* of the type that succeeds
C22_Witness ==
  /\ \E i, j, k \in 1..Len(calls) :
       /\ i < j /\ j < k
       /\ calls[i].op = "Get" /\ calls[i].err # ""
       /\ calls[j].op = "Register" /\ calls[j].err = ""
       /\ calls[k].op = "Get" /\ calls[k].err = ""
       /\ calls[i].nodeType = calls[j].nodeType
       /\ calls[j].nodeType = calls[k].nodeType
\* The output port of a connection is resolved: the output of its source node
\* is in the data flow, with items on the port or without (resolved but empty)
Resolved(c) == dataFlow[c.src].written

\* The readiness rule on the connections of the workflow definition
ReadyByRule ==
  {n \in workflow.nodes :
     /\ nodeStates[n].Status = "waiting"
     /\ \A c \in Connections : c.tgt = n => Resolved(c)}

\* C23: in every iteration of the supervising loop the computed ready set is
\* exactly the set of the nodes that are still Pending and whose every incoming
\* connection has its source port resolved; a port that was resolved without
\* items counts as resolved.
C23_ReadySetIsRule ==
  /\ runPc = "loop" => getReadyNodes = ReadyByRule
  /\ runPc = "dispatch" /\ readyNodes # {} =>
       \A n \in readyNodes : \A c \in Connections : c.tgt = n => Resolved(c)

\* An iteration in which a node is ready over a port that its source resolved
\* without items, beside a node that is ready over a port with items
C23_Witness ==
  /\ runPc = "loop"
  /\ \E c, d \in Connections :
       /\ c.tgt \in getReadyNodes
       /\ c.port \notin dataFlow[c.src].data
       /\ d.tgt \in getReadyNodes
       /\ d.port \in dataFlow[d.src].data
\* The node has incoming connections and all of them resolved to skipped
AllInputsSkipped(n) ==
  /\ \E c \in Connections : c.tgt = n
  /\ \A c \in Connections : c.tgt = n => SkippedInput(c)

\* C24: a node is Skipped, without an Execute call, if and only if it has an
\* incoming connection and all its incoming connections resolved to skipped:
\* a Skipped node is such a node (so a root node is never Skipped), and such a
\* node ends Skipped and is never executed.
C24_SkippedIffInputsSkipped ==
  \A n \in workflow.nodes :
    /\ nodeStates[n].Status = "skipped" => AllInputsSkipped(n)
    /\ AllInputsSkipped(n) =>
         /\ invocations[n] = 0
         /\ nodeStates[n].Status \in NodeTerminal =>
              nodeStates[n].Status = "skipped"
C26_LoopWaitsForWork ==
  (/\ runPc = "loop"
   /\ ~IsTerminal(execution.Status)
   /\ getReadyNodes = {}
   /\ ~allNodesCompleted
   /\ ~hasDeadlock)
    => (Busy # {} \/ nodeChan # <<>>)
\* C27: when several nodes without continue-on-fail fail in one execution, the
\* error message and the error node of the execution are those of the first
\* failure: once a failure is recorded, a later failure does not change them.
C27_FirstFailureKept ==
  [][execution.Status = "error"
       => /\ execution'.ErrorNode = execution.ErrorNode
          /\ execution'.ErrorMessage = execution.ErrorMessage]_vars
RECURSIVE Pow(_, _)
Pow(b, e) == IF e = 0 THEN 1 ELSE b * Pow(b, e - 1)

\* retryDelay * backoffFactor^attempt, at most the ceiling
GeometricDelay(retryDelay, backoffFactor, attempt, ceiling) ==
  LET d == retryDelay * Pow(backoffFactor, attempt)
  IN IF d > ceiling THEN ceiling ELSE d

\* C28: the sleeps of a retry loop are retryDelay * backoffFactor^attempt
\* (attempt = the retries already made) capped at the ceiling, for some
\* retryDelay and backoffFactor: they grow geometrically with the attempt
\* counter and never exceed the ceiling of 30 s.
C28_BackoffIsGeometric ==
  \E retryDelay \in 1..30, backoffFactor \in 1..30 :
    \A k \in 1..Len(calls) :
      calls[k].d = GeometricDelay(retryDelay, backoffFactor, k - 1, 30)
\* C29: a failure that is not retryable is never followed by another Execute
\* call of the node: an Execute call that returns a non-retryable error leaves
\* the retry loop for the final error handling whatever MaxRetries is, after
\* a recorded non-retryable error the node is not executed again, and a node
\* whose credentials could not be loaded has no Execute call at all.
C29_NonRetryableEndsNode ==
  [][\A n \in workflow.nodes :
       /\ \A err \in ExecuteErrors :
            (~isRetryableError(err) /\ NodeExecuteWith(n, err))
              => /\ running'[n].pc # "exec"
                 /\ NodeError(n)' = err
       /\ (NodeError(n) # "" /\ ~isRetryableError(NodeError(n)))
            => invocations'[n] = invocations[n]
       /\ NodeError(n)' \in PrepareErrors => invocations'[n] = 0]_vars

\* A node with retries left whose first Execute failed for good, beside a
\* node that failed at its credentials
C29_Witness ==
  \E n, m \in workflow.nodes :
    /\ workflow.maxRetries[n] >= 1
    /\ invocations[n] = 1
    /\ NodeError(n) = "fatal"
    /\ NodeError(m) \in PrepareErrors
    /\ invocations[m] = 0
C31_ResultsKeptAfterStop ==
  [][context # "active"
       => \A n \in workflow.nodes :
            /\ dataFlow[n].written => dataFlow'[n] = dataFlow[n]
            /\ nodeStates[n].Status \in NodeTerminal
                 => nodeStates'[n].Status = nodeStates[n].Status]_vars
\* C32: an execution is created Waiting and becomes Running only when its
\* first node is dispatched: in no state is there an execution record that is
\* Running while every node is still waiting and none has been queued.
C32_RunningOnlyAfterDispatch ==
  execution.Status = "running" => \E n \in workflow.nodes : Dispatched(n)
\* The node has a skipped and a data-carrying incoming connection, and all
\* its incoming connections are resolved
MixedInputs(n) ==
  /\ \E c \in Connections : c.tgt = n /\ SkippedInput(c)
  /\ \E c \in Connections : c.tgt = n /\ Resolved(c) /\ ~SkippedInput(c)
  /\ \A c \in Connections : c.tgt = n => Resolved(c)

\* The items of the incoming connections of the node that carry data
ResolvedItems(n) ==
  {Item(c.src, c.port) : c \in {d \in Connections : d.tgt = n /\ ~SkippedInput(d)}}

C34_WorkerSlotReleased ==
  \A n \in WfChain.nodes :
    (context # "active" /\ running[n].pc = "exec") ~> (running[n].pc = "idle")
\* The call of ProcessItems returns in this step
Returns == processItems.ret = "" /\ processItems'.ret # ""

C36_RetriesBounded ==
  /\ execution.RetryCount <= policy.MaxRetries
  /\ Len(calls) = execution.RetryCount
  /\ \A k \in 1..Len(calls) :
       calls[k].RetryCount = k - 1 /\ calls[k].RetryCount < policy.MaxRetries
  /\ execution.RetryCount = policy.MaxRetries => ~CanRetry(execution, policy)

\* The last retry the policy allows has failed
C36_Witness ==
  /\ policy.MaxRetries >= 2
  /\ execution.RetryCount = policy.MaxRetries
  /\ execution.Status = "error"
\* C37: in every state reached by Start, Complete, Fail, Cancel and Timeout
\* calls on an execution, FinishedAt is set if and only if the status is
\* terminal.
C37_FinishedAtIffTerminal ==
  execution.FinishedAt # NoTime <=> IsTerminal(execution.Status)

\* C38: on every exit path of run() (success, deadlock, context cancellation
\* or timeout, build failure) all worker goroutines of the execution
\* terminate: when run() has returned, no nodeWorker goroutine is left, in
\* executeNode or blocked on nodeChan.
C38_WorkersTerminate == runPc = "done" => workersAlive = 0
====
